---- MODULE Spec2Model ----
(***************************************************************************)
(* Coffee-shop backend (backend/src/api.py): the five routes, the          *)
(* authorization gate in front of four of them, the drinks table and the   *)
(* error handlers that turn HTTP exceptions into JSON bodies.              *)
(*                                                                         *)
(* One action per route, each the whole request: gate, handler, store      *)
(* access, response.  The last request and its response are kept in the    *)
(* state so that properties can speak about them.                          *)
(***************************************************************************)
EXTENDS Integers, Sequences, FiniteSets, TLC

VARIABLES drinks, req, resp, created

vars == <<drinks, req, resp, created>>

\* Largest drink id the table hands out.
MaxId == 2

(***************************************************************************)
(* Values                                                                  *)
(***************************************************************************)
\* Python's None / a present value.
None == << >>
Some(v) == << v >>

\* A JSON value with its text-encoding depth: str = 0 is the structured
\* value itself, str = n > 0 is a string holding n nested encodings of it.
Structured(r) == [str |-> 0, of |-> r]

\* json.dumps: one more level of text encoding.
dumps(v) == [v EXCEPT !.str = @ + 1]

\* json.loads: one level of text decoding (of a string only).
loads(v) == [v EXCEPT !.str = @ - 1]

Titles == {"Latte", "Mocha"}

Recipes ==
    { Structured(<<[color |-> "white", name |-> "milk", parts |-> 1]>>),
      Structured(<<[color |-> "brown", name |-> "coffee", parts |-> 2],
                   [color |-> "white", name |-> "milk", parts |-> 1]>>) }

DrinkIds == 1..MaxId

Permissions == {"get:drinks-detail", "post:drinks", "patch:drinks", "delete:drinks"}

\* Authorization header contents: absent, a token that fails verification,
\* a verified token without a permissions claim, a verified token with a
\* permission set (here: each single permission).
Tokens ==
    { [kind |-> k, perms |-> {}] : k \in {"missing", "invalid", "noperms"} }
    \cup { [kind |-> "valid", perms |-> {p}] : p \in Permissions }

\* Request bodies: none at all, unparseable JSON, or a JSON object with any
\* subset of the keys title, recipe, id.
NoTitle == ""
NoRecipe == Structured(<< >>)
NoBody == [kind |-> "none", keys |-> {}, title |-> NoTitle, recipe |-> NoRecipe, id |-> 0]
JsonBody(ks, t, r) ==
    [kind |-> "json", keys |-> ks,
     title |-> IF "title" \in ks THEN t ELSE NoTitle,
     recipe |-> IF "recipe" \in ks THEN r ELSE NoRecipe,
     id |-> IF "id" \in ks THEN 1 ELSE 0]
Bodies ==
    {NoBody, [NoBody EXCEPT !.kind = "malformed"], JsonBody({}, NoTitle, NoRecipe)}
    \cup { JsonBody({"title"}, t, NoRecipe) : t \in Titles }
    \cup { JsonBody({"recipe"}, NoTitle, r) : r \in Recipes }
    \cup { JsonBody({"title", "recipe"}, t, r) : t \in Titles, r \in Recipes }
    \cup { JsonBody({"id", "title"}, t, NoRecipe) : t \in Titles }

\* The (token, body) pairs sent to a view that reads the body: every body
\* under the token holding the permission named, and under every token no
\* body, an empty object and a complete one.
SampleBodies ==
    { NoBody, JsonBody({}, NoTitle, NoRecipe),
      JsonBody({"title", "recipe"}, "Latte", CHOOSE r \in Recipes : Len(r.of) = 1) }
Submissions(permission) ==
    (Tokens \X SampleBodies) \cup ({ t \in Tokens : permission \in t.perms } \X Bodies)

\* dict.get(key, None)
get_title(data) == IF "title" \in data.keys THEN Some(data.title) ELSE None
get_recipe(data) == IF "recipe" \in data.keys THEN Some(data.recipe) ELSE None

Ids(store) == { d.id : d \in store }

(***************************************************************************)
(* Responses                                                               *)
(***************************************************************************)
NoResponse ==
    [status |-> 0, json |-> FALSE, keys |-> {}, success |-> FALSE, error |-> 0,
     message |-> "", drinks |-> << >>, delete |-> 0]

\* jsonify({success: False, error: code, message: msg}), code
ErrorJson(code, msg) ==
    [NoResponse EXCEPT !.status = code, !.json = TRUE,
                       !.keys = {"success", "error", "message"},
                       !.error = code, !.message = msg]

\* jsonify({success: True, drinks: ds})
DrinksJson(ds) ==
    [NoResponse EXCEPT !.status = 200, !.json = TRUE, !.keys = {"success", "drinks"},
                       !.success = TRUE, !.drinks = ds]

\* jsonify({success: True, delete: id})
DeleteJson(id) ==
    [NoResponse EXCEPT !.status = 200, !.json = TRUE, !.keys = {"success", "delete"},
                       !.success = TRUE, !.delete = id]

\* The framework's own page for an HTTP error with no registered handler,
\* and for an uncaught exception (500): not a JSON body.
DefaultPage(code) == [NoResponse EXCEPT !.status = code]

unprocessable == ErrorJson(422, "unprocessable")

not_found == ErrorJson(404, "resource not found")

bad_request_401_wrong == ErrorJson(401, "Bad request")
bad_request_401 == ErrorJson(401, "Unauthenticated")

bad_request_403 == ErrorJson(403, "Unauthorized")

bad_request_400 == ErrorJson(400, "Bad request")

method_not_allowed == ErrorJson(405, "Method not allowed")

\* abort(code): the handler registered for the code, else the default page.
abort(code) ==
    CASE code = 422 -> unprocessable
      [] code = 404 -> not_found
      [] code = 401 -> bad_request_401
      [] code = 403 -> bad_request_403
      [] code = 400 -> bad_request_400
      [] code = 405 -> method_not_allowed
      [] OTHER -> DefaultPage(code)

\* An exception no handler catches.
InternalServerError == DefaultPage(500)

(***************************************************************************)
(* The Drink model and its table                                           *)
(***************************************************************************)
\* Drink.long(): id, title and the decoded recipe.
long(drink) == [id |-> drink.id, title |-> drink.title, recipe |-> loads(drink.recipe)]

\* Drink.short() decodes the recipe and projects each ingredient on color and
\* parts; it can do so only when the decoded value is the ingredient list.
short_ok(drink) == loads(drink.recipe).str = 0
short(drink) ==
    [id |-> drink.id, title |-> drink.title,
     recipe |-> Structured([i \in DOMAIN drink.recipe.of |->
                   [color |-> drink.recipe.of[i].color,
                    parts |-> drink.recipe.of[i].parts]])]

\* Drink.insert(): the row is stored under a fresh id, unless the table
\* refuses it (title missing or already taken, recipe missing).
insert_ok(store, title, recipe) ==
    /\ title # None
    /\ recipe # None
    /\ \A d \in store : d.title # title[1]

\* Drink.update(): the changed row replaces the old one, unless its title is
\* another row's.
update_ok(store, old, new) ==
    \A d \in store \ {old} : d.title # new.title

\* The rows of a store in ascending id order.
RECURSIVE order_by_id(_)
order_by_id(store) ==
    IF store = {} THEN << >>
    ELSE LET first == CHOOSE d \in store : \A e \in store : d.id <= e.id
         IN  <<first>> \o order_by_id(store \ {first})

\* Every order a query without ORDER BY may return the rows in.
Orders(store) ==
    { s \in [1..Cardinality(store) -> store] :
        \A i, j \in 1..Cardinality(store) : i # j => s[i] # s[j] }

(***************************************************************************)
(* The authorization gate                                                  *)
(***************************************************************************)
Permission_get_drink_details == "get:drinks-detail"

Permission_add_drinks == "post:drinks"

Permission_update_drink_wrong == "post:drinks"
Permission_update_drink == "patch:drinks"

Permission_delete_drink_wrong == "patch:drinks"
Permission_delete_drink == "delete:drinks"

\* requires_auth(permission): 0 when the request may proceed, else the HTTP
\* status of the authorization error.
requires_auth(permission, token) ==
    CASE token.kind = "missing" -> 401
      [] token.kind = "invalid" -> 401
      [] token.kind = "noperms" -> 401
      [] permission \notin token.perms -> 403
      [] OTHER -> 0

Result(store, response) == [drinks |-> store, resp |-> response]

(***************************************************************************)
(* The views.  Each takes the table and the request's parts and gives the  *)
(* table afterwards and the response.                                      *)
(***************************************************************************)
\* GET /drinks: no gate; rows come in the order the query returned them.
get_drinks(store, rows) ==
    IF \A i \in DOMAIN rows : short_ok(rows[i])
    THEN Result(store, DrinksJson([i \in DOMAIN rows |-> short(rows[i])]))
    ELSE Result(store, InternalServerError)

\* GET /drinks-detail
get_drink_details(store, token) ==
    LET auth == requires_auth(Permission_get_drink_details, token)
        rows == order_by_id(store)
    IN  IF auth # 0 THEN Result(store, abort(auth))
        ELSE Result(store, DrinksJson([i \in DOMAIN rows |-> long(rows[i])]))

\* The recipe as POST stores it: encoded once, when present.
add_drinks_recipe_twice(recipe) ==
    IF recipe # None THEN Some(dumps(dumps(recipe[1]))) ELSE None
add_drinks_recipe(recipe) ==
    IF recipe # None THEN Some(dumps(recipe[1])) ELSE None

\* POST /drinks.  newid is the id the table assigns on insert.
add_drinks(store, token, data, newid) ==
    LET auth == requires_auth(Permission_add_drinks, token)
        title == get_title(data)
        recipe == add_drinks_recipe(get_recipe(data))
    IN  IF auth # 0 THEN Result(store, abort(auth))
        ELSE IF data.kind = "none" THEN Result(store, InternalServerError)
        ELSE IF data.kind = "malformed" THEN Result(store, abort(400))
        ELSE IF ~insert_ok(store, title, recipe) THEN Result(store, InternalServerError)
        ELSE LET new_drink == [id |-> newid, title |-> title[1], recipe |-> recipe[1]]
             IN  Result(store \cup {new_drink}, DrinksJson(<<long(new_drink)>>))

\* `not data`: no body, or an empty object.
no_body_only_none(data) == data.kind = "none"
no_body(data) == data.kind = "none" \/ data.keys = {}

\* The recipe as PATCH prepares it before the row is touched.
update_drink_recipe(recipe) ==
    IF recipe # None THEN Some(dumps(recipe[1])) ELSE None

\* The fields PATCH writes to the row: title and recipe, each only when the
\* body has it; the prepared recipe is encoded again on assignment.
apply_update_with_id(drink, data) ==
    LET title == get_title(data)
        recipe == update_drink_recipe(get_recipe(data))
    IN  [drink EXCEPT !.id = IF "id" \in data.keys THEN data.id ELSE @,
                      !.title = IF title # None THEN title[1] ELSE @,
                      !.recipe = IF recipe # None THEN dumps(recipe[1]) ELSE @]
apply_update_overwrite(drink, data) ==
    LET recipe == update_drink_recipe(get_recipe(data))
    IN  [drink EXCEPT !.title = IF data.title # NoTitle THEN data.title ELSE "null",
                      !.recipe = IF recipe # None THEN dumps(recipe[1]) ELSE dumps(dumps(NoRecipe))]
apply_update(drink, data) ==
    LET title == get_title(data)
        recipe == update_drink_recipe(get_recipe(data))
    IN  [drink EXCEPT !.title = IF title # None THEN title[1] ELSE @,
                      !.recipe = IF recipe # None THEN dumps(recipe[1]) ELSE @]

\* PATCH /drinks/<drink_id>
update_drink(store, token, data, drink_id) ==
    LET auth == requires_auth(Permission_update_drink, token)
        found == { d \in store : d.id = drink_id }
    IN  IF auth # 0 THEN Result(store, abort(auth))
        ELSE IF data.kind = "malformed" THEN Result(store, abort(400))
        ELSE IF no_body(data) THEN Result(store, abort(409))
        ELSE IF found = {} THEN Result(store, abort(404))
        ELSE LET drink == CHOOSE d \in found : TRUE
                 updated == apply_update(drink, data)
             IN  IF ~update_ok(store, drink, updated)
                 THEN Result(store, InternalServerError)
                 ELSE Result((store \ {drink}) \cup {updated},
                             DrinksJson(<<long(updated)>>))

\* DELETE /drinks/<drink_id>
delete_drink(store, token, drink_id) ==
    LET auth == requires_auth(Permission_delete_drink, token)
        found == { d \in store : d.id = drink_id }
    IN  IF auth # 0 THEN Result(store, abort(auth))
        ELSE IF found = {} THEN Result(store, abort(404))
        ELSE Result(store \ found, DeleteJson(drink_id))

\* The URL map: which view, if any, answers a method on a path.
Methods == {"GET", "POST", "PATCH", "DELETE"}
Paths == {"/drinks", "/drinks-detail", "/drinks/<id>", "/other"}
Routes ==
    { <<"GET", "/drinks">>, <<"GET", "/drinks-detail">>, <<"POST", "/drinks">>,
      <<"PATCH", "/drinks/<id>">>, <<"DELETE", "/drinks/<id>">> }

\* A request no view answers: 404 for an unknown path, 405 for a known path
\* under another method.
no_route(method, path) ==
    IF \E r \in Routes : r[2] = path THEN abort(405) ELSE abort(404)

(***************************************************************************)
(* State machine                                                           *)
(***************************************************************************)
Request(method, path, drink_id, token, body) ==
    [method |-> method, path |-> path, drink_id |-> drink_id,
     token |-> token, body |-> body]

\* created: the drinks a POST created that no PATCH or DELETE has touched
\* since, each with the id of the POST response and the title and recipe of
\* the POST body (history only).
Init ==
    /\ drinks = {}
    /\ req = Request("", "", 0, [kind |-> "missing", perms |-> {}], NoBody)
    /\ resp = NoResponse
    /\ created = {}

GetDrinks ==
    \E token \in Tokens, body \in {NoBody}, rows \in Orders(drinks) :
        \E r \in {get_drinks(drinks, rows)} :
            /\ req' = Request("GET", "/drinks", 0, token, body)
            /\ drinks' = r.drinks
            /\ resp' = r.resp
            /\ UNCHANGED created

GetDrinkDetails ==
    \E token \in Tokens, body \in {NoBody} :
        \E r \in {get_drink_details(drinks, token)} :
            /\ req' = Request("GET", "/drinks-detail", 0, token, body)
            /\ drinks' = r.drinks
            /\ resp' = r.resp
            /\ UNCHANGED created

AddDrinks ==
    \E sub \in Submissions("post:drinks"), newid \in DrinkIds :
        \E r \in {add_drinks(drinks, sub[1], sub[2], newid)} :
            /\ IF r.drinks # drinks THEN newid \notin Ids(drinks) ELSE newid = 1
            /\ req' = Request("POST", "/drinks", 0, sub[1], sub[2])
            /\ drinks' = r.drinks
            /\ resp' = r.resp
            /\ created' = IF r.resp.status = 200
                          THEN created \cup {[id |-> r.resp.drinks[1].id,
                                              title |-> sub[2].title,
                                              recipe |-> sub[2].recipe]}
                          ELSE created

UpdateDrink ==
    \E sub \in Submissions("patch:drinks"), drink_id \in DrinkIds :
        \E r \in {update_drink(drinks, sub[1], sub[2], drink_id)} :
            /\ req' = Request("PATCH", "/drinks/<id>", drink_id, sub[1], sub[2])
            /\ drinks' = r.drinks
            /\ resp' = r.resp
            /\ created' = IF r.resp.status = 200
                          THEN { c \in created : c.id # drink_id }
                          ELSE created

DeleteDrink ==
    \E token \in Tokens, body \in {NoBody}, drink_id \in DrinkIds :
        \E r \in {delete_drink(drinks, token, drink_id)} :
            /\ req' = Request("DELETE", "/drinks/<id>", drink_id, token, body)
            /\ drinks' = r.drinks
            /\ resp' = r.resp
            /\ created' = IF r.resp.status = 200
                          THEN { c \in created : c.id # drink_id }
                          ELSE created

NoRoute ==
    \E method \in Methods, path \in Paths, drink_id \in DrinkIds \cup {0} :
        /\ <<method, path>> \notin Routes
        /\ (path = "/drinks/<id>") = (drink_id # 0)
        /\ req' = Request(method, path, drink_id, [kind |-> "missing", perms |-> {}],
                          NoBody)
        /\ resp' = no_route(method, path)
        /\ UNCHANGED <<drinks, created>>

Next ==
    \/ GetDrinks
    \/ GetDrinkDetails
    \/ UpdateDrink
    \/ DeleteDrink
    \/ AddDrinks
    \/ NoRoute

Spec == Init /\ [][Next]_vars

(***************************************************************************)
(* Properties                                                              *)
(***************************************************************************)
IsRequest(r, method, path) == r.method = method /\ r.path = path

\* The permission the interface attaches to each protected endpoint.
Protected ==
    { <<"GET", "/drinks-detail">>, <<"POST", "/drinks">>,
      <<"PATCH", "/drinks/<id>">>, <<"DELETE", "/drinks/<id>">> }
Required(r) ==
    CASE IsRequest(r, "GET", "/drinks-detail") -> "get:drinks-detail"
      [] IsRequest(r, "POST", "/drinks") -> "post:drinks"
      [] IsRequest(r, "PATCH", "/drinks/<id>") -> "patch:drinks"
      [] IsRequest(r, "DELETE", "/drinks/<id>") -> "delete:drinks"
IsProtected(r) == <<r.method, r.path>> \in Protected

\* The token passed verification (with or without a permissions claim).
Verified(t) == t.kind \in {"valid", "noperms"}
\* The token passed verification and its permission set holds p.
Grants(t, p) == t.kind = "valid" /\ p \in t.perms

IsErrorBody(r, code, msg) ==
    /\ r.status = code
    /\ r.json
    /\ r.keys = {"success", "error", "message"}
    /\ ~r.success
    /\ r.error = code
    /\ r.message = msg

EmptyBody(b) == b.kind = "none" \/ (b.kind = "json" /\ b.keys = {})

\* C1 as stated: every verified token that does not contain the endpoint's
\* permission string gets 403 "Unauthorized" from every protected endpoint.
C1_AnyTokenLackingPermission403 ==
    (IsProtected(req) /\ Verified(req.token) /\ Required(req) \notin req.token.perms)
        => IsErrorBody(resp, 403, "Unauthorized")

\* C1 amended: a verified token whose claims carry a permission set that
\* lacks the endpoint's permission string gets 403 "Unauthorized" from every
\* protected endpoint, whatever other permissions the set holds.
C1_LackingPermission403 ==
    (IsProtected(req) /\ req.token.kind = "valid" /\ Required(req) \notin req.token.perms)
        => IsErrorBody(resp, 403, "Unauthorized")

\* DELETE of a stored drink under a token that holds only patch:drinks.
C1_Witness ==
    /\ IsRequest(req, "DELETE", "/drinks/<id>")
    /\ req.drink_id \in Ids(drinks)
    /\ req.token = [kind |-> "valid", perms |-> {"patch:drinks"}]
    /\ resp.status = 403

\* C2: a request without Authorization header gets 401 "Unauthenticated" from
\* each protected endpoint, whatever its body and id.
C2_MissingHeader401 ==
    (IsProtected(req) /\ req.token.kind = "missing")
        => IsErrorBody(resp, 401, "Unauthenticated")

\* PATCH of a stored drink with a body that would change it, no header.
C2_Witness ==
    /\ IsRequest(req, "PATCH", "/drinks/<id>")
    /\ req.token.kind = "missing"
    /\ req.body.keys = {"title", "recipe"}
    /\ req.drink_id \in Ids(drinks)
    /\ resp.status = 401

\* C3 as stated: PATCH with an empty body on a stored id answers 409 whatever
\* the token.
C3_EmptyPatchAlways409 ==
    (IsRequest(req, "PATCH", "/drinks/<id>") /\ EmptyBody(req.body)
        /\ req.drink_id \in Ids(drinks))
        => resp.status = 409

\* C3 amended: PATCH with an empty body on a stored id answers 409 when the
\* token is verified and holds patch:drinks; the gate comes first, so a
\* missing or unverifiable token or one without permissions claim gets 401
\* and a verified token whose permissions lack patch:drinks gets 403.
C3_EmptyPatch409WhenAuthorized ==
    (IsRequest(req, "PATCH", "/drinks/<id>") /\ EmptyBody(req.body)
        /\ req.drink_id \in Ids(drinks))
        => resp.status = IF Grants(req.token, "patch:drinks") THEN 409
                         ELSE IF req.token.kind = "valid" THEN 403
                         ELSE 401

\* PATCH {} of a stored drink under a token holding patch:drinks.
C3_Witness ==
    /\ IsRequest(req, "PATCH", "/drinks/<id>")
    /\ req.body.kind = "json" /\ req.body.keys = {}
    /\ req.drink_id \in Ids(drinks)
    /\ Grants(req.token, "patch:drinks")
    /\ resp.status = 409

\* C4: an authorized GET /drinks-detail answers 200 and lists, for every
\* drink created by a successful POST and not updated or deleted since, a
\* long-form entry with the id the POST returned and the title and recipe the
\* POST sent.
C4_CreateRoundTrip ==
    (IsRequest(req, "GET", "/drinks-detail") /\ Grants(req.token, "get:drinks-detail"))
        => /\ resp.status = 200
           /\ \A c \in created :
                \E i \in DOMAIN resp.drinks :
                    resp.drinks[i] = [id |-> c.id, title |-> c.title, recipe |-> c.recipe]

\* The detail listing of a table holding an untouched created drink and a
\* second drink that was updated since its creation.
C4_Witness ==
    /\ IsRequest(req, "GET", "/drinks-detail")
    /\ resp.status = 200
    /\ Cardinality(created) = 1
    /\ Cardinality(drinks) = 2

\* C5: after a successful PATCH whose body has recipe R, the row's recipe is
\* R encoded once, as POST would store it, and the response's long-form
\* recipe is the structured value R.
C5_UpdateRoundTrip ==
    (IsRequest(req, "PATCH", "/drinks/<id>") /\ resp.status = 200
        /\ "recipe" \in req.body.keys)
        => /\ \E d \in drinks : d.id = req.drink_id /\ d.recipe = dumps(req.body.recipe)
           /\ resp.drinks[1].recipe = req.body.recipe

\* C6: a successful PATCH without recipe in its body leaves the drink's
\* recipe as it was, one without title leaves its title as it was, and every
\* other drink is as it was.
C6_PartialUpdate ==
    [][(IsRequest(req', "PATCH", "/drinks/<id>") /\ resp'.status = 200)
        => /\ Cardinality(drinks') = Cardinality(drinks)
           /\ \A d \in drinks :
                \E e \in drinks' :
                    /\ e.id = d.id
                    /\ d.id # req'.drink_id => e = d
                    /\ "recipe" \notin req'.body.keys => e.recipe = d.recipe
                    /\ "title" \notin req'.body.keys => e.title = d.title]_vars

\* A successful title-only PATCH on a table of two drinks.
C6_Witness ==
    /\ IsRequest(req, "PATCH", "/drinks/<id>")
    /\ resp.status = 200
    /\ req.body.keys = {"title"}
    /\ Cardinality(drinks) = 2

\* C7: every response is a 200 with success true, or an error whose body is
\* {success: false, error: <its status>, message: <string>}, the status one
\* of 400, 401, 403, 404, 405, 409, 422.
C7_ResponseShape ==
    resp.status # 0
        => \/ resp.status = 200 /\ resp.json /\ resp.success
           \/ /\ resp.status \in {400, 401, 403, 404, 405, 409, 422}
              /\ resp.json
              /\ {"success", "error", "message"} \subseteq resp.keys
              /\ ~resp.success
              /\ resp.error = resp.status

\* C8: PATCH or DELETE of an id that is not stored, under a token holding the
\* endpoint's permission, answers 404 "resource not found" and leaves the
\* table as it was.
C8_AbsentId404 ==
    [][(/\ IsRequest(req', "PATCH", "/drinks/<id>") \/ IsRequest(req', "DELETE", "/drinks/<id>")
        /\ req'.drink_id \notin Ids(drinks)
        /\ Grants(req'.token, Required(req')))
        => IsErrorBody(resp', 404, "resource not found") /\ drinks' = drinks]_vars

\* C9: a stored drink keeps its id: in every step each stored drink is still
\* stored unchanged, or was updated under its id by a successful PATCH of that
\* id, or was removed by a successful DELETE of that id; a drink appearing
\* under an id not stored before is the one a successful POST returned; ids
\* stay unique.
C9_IdImmutable ==
    [][/\ \A d \in drinks :
            \/ d \in drinks'
            \/ /\ IsRequest(req', "PATCH", "/drinks/<id>") /\ resp'.status = 200
               /\ req'.drink_id = d.id
               /\ \E e \in drinks' : e.id = d.id
            \/ /\ IsRequest(req', "DELETE", "/drinks/<id>") /\ resp'.status = 200
               /\ req'.drink_id = d.id
       /\ \A e \in drinks' :
            \/ e.id \in Ids(drinks)
            \/ /\ IsRequest(req', "POST", "/drinks") /\ resp'.status = 200
               /\ resp'.drinks[1].id = e.id
       /\ Cardinality(Ids(drinks')) = Cardinality(drinks')]_vars

\* A successful PATCH whose body names another id, on a table of two drinks.
C9_Witness ==
    /\ IsRequest(req, "PATCH", "/drinks/<id>")
    /\ resp.status = 200
    /\ "id" \in req.body.keys /\ req.body.id # req.drink_id
    /\ Cardinality(drinks) = 2

\* C10: the table changes only in a step that is a POST, PATCH or DELETE
\* whose token is verified and holds post:drinks, patch:drinks or
\* delete:drinks respectively.
C10_NoWriteWithoutPermission ==
    [][drinks' # drinks
        => \/ IsRequest(req', "POST", "/drinks") /\ Grants(req'.token, "post:drinks")
           \/ IsRequest(req', "PATCH", "/drinks/<id>") /\ Grants(req'.token, "patch:drinks")
           \/ IsRequest(req', "DELETE", "/drinks/<id>")
                /\ Grants(req'.token, "delete:drinks")]_vars

\* A complete POST body under a token holding only delete:drinks, refused
\* while the table holds a drink.
C10_Witness ==
    /\ IsRequest(req, "POST", "/drinks")
    /\ req.body.keys = {"title", "recipe"}
    /\ req.token = [kind |-> "valid", perms |-> {"delete:drinks"}]
    /\ resp.status = 403
    /\ drinks # {}
    /\ \A d \in drinks : d.title # req.body.title

====
